---- MODULE Spec2Model ----
(***************************************************************************)
(* Task controller of TaskMaster-Backend (controllers/taskController.js):  *)
(* createTask, getTasks, getAssignedTasks, getCreatedTasks, getTaskById,   *)
(* updateTask, deleteTask, updateTaskStatus over the Task collection.      *)
(*                                                                         *)
(* Time is counted in units, DayLen of them to a calendar day.  An instant *)
(* is a number of units since the epoch (UTC); the server's time zone is   *)
(* an offset in units added to an instant to get the server's wall clock.  *)
(***************************************************************************)
EXTENDS Integers, Sequences, FiniteSets, TLC

VARIABLES tasks, nextId, now, tz, req, res, inflight

vars == <<tasks, nextId, now, tz, req, res, inflight>>

(***************************************************************************)
(* Bounds of the model.                                                    *)
(***************************************************************************)
\* Units per calendar day.
DayLen == 4
\* Tasks ever created in one behaviour.
MaxTasks == 2
\* Tasks ever created in one behaviour of the listing specification.
MaxListed == 2
\* Clock ticks in one behaviour.
MaxTicks == 1

\* Registered users (the authenticated requesters), and an id that is a
\* well-formed user id but belongs to no user.
Users == {"u1", "u2"}
Ghost == "u9"
UserIds == Users \cup {Ghost}

\* JavaScript's undefined, for the string-valued fields.
Undef == "undefined"
\* JavaScript's null, as a document.
NullDoc == [null |-> TRUE]
\* An absent date value (undefined), and NaN as a date (Invalid Date).
NoDate == <<>>

(***************************************************************************)
(* Dates: new Date(x), setHours(0,0,0,0), <                                *)
(***************************************************************************)
\* The payload's dueDate as the client writes it:
\*   [form |-> "none"]                 the field is not sent
\*   [form |-> "date", day |-> d]      "YYYY-MM-DD", calendar day d
\*   [form |-> "local", at |-> t]      "YYYY-MM-DDTHH:mm", no offset
\*   [form |-> "instant", at |-> t]    "YYYY-MM-DDTHH:mmZ"
\*   [form |-> "invalid"]              a string that is no date
DateNone == [form |-> "none"]
DateOnly(d) == [form |-> "date", day |-> d]
DateLocal(t) == [form |-> "local", at |-> t]
DateInstant(t) == [form |-> "instant", at |-> t]
DateInvalid == [form |-> "invalid"]

\* new Date(string): a date-only form is UTC midnight of that day, a
\* date-time form without offset is wall-clock time of the server's zone.
\* The result is <<instant>>, or NoDate for Invalid Date.
NewDate(d, zone) ==
  CASE d.form = "date" -> <<d.day * DayLen>>
    [] d.form = "local" -> <<d.at - zone>>
    [] d.form = "instant" -> <<d.at>>
    [] OTHER -> NoDate

\* date.setHours(0, 0, 0, 0): midnight of the date's day on the server's
\* wall clock; Invalid Date stays invalid.
SetHoursZero(date, zone) ==
  IF date = NoDate THEN NoDate
  ELSE <<((date[1] + zone) \div DayLen) * DayLen - zone>>

\* a < b on dates: false when either is Invalid Date (NaN).
DateLess(a, b) == a # NoDate /\ b # NoDate /\ a[1] < b[1]

\* !x of a string-valued field.
Falsy(x) == x \in {Undef, ""}

\* if (taskDueDate < today)
DueDateInPast(dueDate, clock, zone) ==
  LET today == SetHoursZero(<<clock>>, zone)
      taskDueDate == SetHoursZero(NewDate(dueDate, zone), zone)
  IN DateLess(taskDueDate, today)

(***************************************************************************)
(* The Task schema (models/Task.js).                                       *)
(***************************************************************************)
StatusEnum == {"pending", "completed"}
PriorityEnum == {"low", "medium", "high"}
DefaultStatus == "pending"

\* Schema validation of the paths a write sets: a value that is given must
\* be of the path's enum, and a date must be a date; a path written as
\* undefined passes.
PathsValid(doc) ==
  /\ doc.status \in StatusEnum \cup {Undef}
  /\ doc.priority \in PriorityEnum \cup {Undef}
  /\ doc.dueDate.form # "invalid"

\* The stored value of a dueDate payload (cast to Date by the schema).
CastDate(d, zone) == IF d.form = "none" THEN NoDate ELSE NewDate(d, zone)

(***************************************************************************)
(* Responses.                                                              *)
(***************************************************************************)
\* populate(path, 'name email'): the user's summary, or null when no user
\* has that id.
PopulateRef(u) == IF u \in Users THEN [_id |-> u] ELSE NullDoc

Populate(t) ==
  [t EXCEPT !.assignedTo = PopulateRef(t.assignedTo),
            !.createdBy = PopulateRef(t.createdBy)]

Response(code, data) == [code |-> code, data |-> data]
NoRequest == [op |-> "none"]
NoResponse == Response(0, NullDoc)

\* Task.findById(id)
FindById(store, id) == IF id \in DOMAIN store THEN store[id] ELSE NullDoc

(***************************************************************************)
(* createTask                                                              *)
(***************************************************************************)
MissingRequired(body) ==
  \/ Falsy(body.title)
  \/ Falsy(body.description)
  \/ body.dueDate.form = "none"
  \/ Falsy(body.priority)
  \/ Falsy(body.assignedTo)

\* The document Task.create is given; status gets the schema's default.
NewTaskDoc(body, user, id, clock, zone) ==
  [ _id |-> id,
    title |-> body.title,
    description |-> body.description,
    dueDate |-> CastDate(body.dueDate, zone),
    priority |-> body.priority,
    status |-> DefaultStatus,
    assignedTo |-> body.assignedTo,
    createdBy |-> user,
    createdAt |-> clock ]

\* The outcome of createTask(req, res): the store after it and the response.
createTask(store, id, body, user, clock, zone) ==
  IF MissingRequired(body)
  THEN [tasks |-> store, res |-> Response(400, NullDoc)]
  ELSE IF DueDateInPast(body.dueDate, clock, zone)
  THEN [tasks |-> store, res |-> Response(400, NullDoc)]
  ELSE IF ~PathsValid([body EXCEPT !.status = DefaultStatus])
  THEN [tasks |-> store, res |-> Response(500, NullDoc)]
  ELSE LET doc == NewTaskDoc(body, user, id, clock, zone)
       IN [tasks |-> [i \in DOMAIN store \cup {id} |->
                        IF i = id THEN doc ELSE store[i]],
           res |-> Response(201, Populate(doc))]

(***************************************************************************)
(* getTaskById                                                             *)
(***************************************************************************)
\* task.createdBy.toString() === req.user._id.toString()
IsCreator(task, user) == task.createdBy = user
\* task.assignedTo.toString() === req.user._id.toString()
IsAssignee(task, user) == task.assignedTo = user

\* getTaskById reads the populated document: task.createdBy._id and
\* task.assignedTo._id throw a TypeError when the reference populated to
\* null, which the catch block answers with 500.
getTaskById(store, id, user) ==
  LET found == FindById(store, id)
      task == Populate(found)
  IN IF found = NullDoc THEN Response(404, NullDoc)
     ELSE IF task.createdBy = NullDoc THEN Response(500, NullDoc)
     ELSE IF task.assignedTo = NullDoc THEN Response(500, NullDoc)
     ELSE IF ~(task.createdBy._id = user) /\ ~(task.assignedTo._id = user)
     THEN Response(403, NullDoc)
     ELSE Response(200, task)

(***************************************************************************)
(* updateTask                                                              *)
(***************************************************************************)
\* The patch, had the handler passed the whole of req.body.
UpdatePatchWhole(body) == body

\* const { title, description, dueDate, priority, status } = req.body
UpdatePatch(body) ==
  [ title |-> body.title,
    description |-> body.description,
    dueDate |-> body.dueDate,
    priority |-> body.priority,
    status |-> body.status ]

\* The value a path holds after $set writes it: the payload's value, and
\* undefined when the payload has none.
Written(old, new) == new

\* The document after { $set: patch }.
ApplyPatch(doc, patch, zone) ==
  [doc EXCEPT !.title = IF "title" \in DOMAIN patch
                        THEN Written(@, patch.title) ELSE @,
              !.description = IF "description" \in DOMAIN patch
                              THEN Written(@, patch.description) ELSE @,
              !.dueDate = IF "dueDate" \in DOMAIN patch
                          THEN Written(@, CastDate(patch.dueDate, zone)) ELSE @,
              !.priority = IF "priority" \in DOMAIN patch
                           THEN Written(@, patch.priority) ELSE @,
              !.status = IF "status" \in DOMAIN patch
                         THEN Written(@, patch.status) ELSE @,
              !.assignedTo = IF "assignedTo" \in DOMAIN patch
                             THEN Written(@, patch.assignedTo) ELSE @,
              !.createdBy = IF "createdBy" \in DOMAIN patch
                            THEN Written(@, patch.createdBy) ELSE @]

\* Task.findByIdAndUpdate(id, patch, {new: true, runValidators: true})
\* .populate(...): the store after it and the response built from the value
\* the query resolves to, which is null when no document has the id.  The
\* update validators run before the update is sent; a validation error
\* leaves the store alone and is answered 500 by the catch block.
FindByIdAndUpdate(store, id, patch, zone) ==
  IF ~PathsValid(patch)
  THEN [tasks |-> store, res |-> Response(500, NullDoc)]
  ELSE IF id \notin DOMAIN store
  THEN [tasks |-> store, res |-> Response(200, NullDoc)]
  ELSE LET doc == ApplyPatch(store[id], patch, zone)
       IN [tasks |-> [store EXCEPT ![id] = doc],
           res |-> Response(200, Populate(doc))]

\* updateTask up to the call of findByIdAndUpdate: the response that ends
\* the request there, or NoResponse when the request goes on to the write.
updateTaskCheck(store, id, body, user, clock, zone) ==
  LET task == FindById(store, id)
  IN IF task = NullDoc THEN Response(404, NullDoc)
     ELSE IF ~IsCreator(task, user) /\ ~IsAssignee(task, user)
     THEN Response(403, NullDoc)
     ELSE IF body.dueDate.form # "none"
             /\ DueDateInPast(body.dueDate, clock, zone)
     THEN Response(400, NullDoc)
     ELSE NoResponse

\* updateTask, had the write come before the check of the due date.
updateTaskWriteFirst(store, id, body, user, clock, zone) ==
  LET early == updateTaskCheck(store, id, body, user, clock, zone)
      out == FindByIdAndUpdate(store, id, UpdatePatch(body), zone)
  IN IF early = NoResponse THEN out
     ELSE IF early.code = 400 THEN [tasks |-> out.tasks, res |-> early]
     ELSE [tasks |-> store, res |-> early]

updateTask(store, id, body, user, clock, zone) ==
  LET early == updateTaskCheck(store, id, body, user, clock, zone)
  IN IF early # NoResponse THEN [tasks |-> store, res |-> early]
     ELSE FindByIdAndUpdate(store, id, UpdatePatch(body), zone)

(***************************************************************************)
(* deleteTask                                                              *)
(***************************************************************************)
\* Task.findByIdAndDelete(id)
FindByIdAndDelete(store, id) == [i \in DOMAIN store \ {id} |-> store[i]]

\* deleteTask's check, had it used the predicate of the update handlers.
deleteTaskCheckParticipant(store, id, user) ==
  LET task == FindById(store, id)
  IN IF task = NullDoc THEN Response(404, NullDoc)
     ELSE IF ~IsCreator(task, user) /\ ~IsAssignee(task, user)
     THEN Response(403, NullDoc)
     ELSE NoResponse

deleteTaskCheck(store, id, user) ==
  LET task == FindById(store, id)
  IN IF task = NullDoc THEN Response(404, NullDoc)
     ELSE IF ~IsCreator(task, user) THEN Response(403, NullDoc)
     ELSE NoResponse

deleteTask(store, id, user) ==
  LET early == deleteTaskCheck(store, id, user)
  IN IF early # NoResponse THEN [tasks |-> store, res |-> early]
     ELSE [tasks |-> FindByIdAndDelete(store, id),
           res |-> Response(200, NullDoc)]

(***************************************************************************)
(* updateTaskStatus                                                        *)
(***************************************************************************)
\* !status || !['pending', 'completed'].includes(status)
InvalidStatus(status) == Falsy(status) \/ status \notin {"pending", "completed"}

\* updateTaskStatus up to task.save(): the response that ends the request
\* there, or NoResponse when the request goes on to the save.
updateTaskStatusCheck(store, id, status, user) ==
  LET task == FindById(store, id)
  IN IF InvalidStatus(status) THEN Response(400, NullDoc)
     ELSE IF task = NullDoc THEN Response(404, NullDoc)
     ELSE IF ~IsCreator(task, user) /\ ~IsAssignee(task, user)
     THEN Response(403, NullDoc)
     ELSE NoResponse

\* task.status = status
SetStatus(task, status) == [task EXCEPT !.status = status]

\* The save, had the status been written through the general update, whose
\* patch names the other four paths too.
SaveReplacing(store, doc) ==
  IF doc._id \notin DOMAIN store
  THEN [tasks |-> store, res |-> Response(500, NullDoc)]
  ELSE LET patch == [title |-> Undef, description |-> Undef,
                     dueDate |-> DateNone, priority |-> Undef,
                     status |-> doc.status]
           new == ApplyPatch(store[doc._id], patch, 0)
       IN [tasks |-> [store EXCEPT ![doc._id] = new],
           res |-> Response(200, Populate(new))]

\* task.save() of a loaded document whose modified path is status: the
\* stored document gets that path; when the document is no longer in the
\* store the save throws DocumentNotFoundError, answered 500.
Save(store, doc) ==
  IF doc._id \notin DOMAIN store
  THEN [tasks |-> store, res |-> Response(500, NullDoc)]
  ELSE [tasks |-> [store EXCEPT ![doc._id].status = doc.status],
        res |-> Response(200, Populate(doc))]

updateTaskStatus(store, id, status, user) ==
  LET early == updateTaskStatusCheck(store, id, status, user)
  IN IF early # NoResponse THEN [tasks |-> store, res |-> early]
     ELSE Save(store, SetStatus(store[id], status))

(***************************************************************************)
(* getTasks, getAssignedTasks, getCreatedTasks                             *)
(***************************************************************************)
\* A query string value is a sequence of characters; a parameter that is
\* not sent is undefined, which parseInt reads as the string "undefined".
RawAbsent == <<"u", "n", "d", "e", "f", "i", "n", "e", "d">>
Digit == [c \in {"0", "1", "2", "3", "4", "5"} |->
            CASE c = "0" -> 0 [] c = "1" -> 1 [] c = "2" -> 2
              [] c = "3" -> 3 [] c = "4" -> 4 [] OTHER -> 5]

\* The value of the longest prefix of digits of s, after acc; <<>> when s
\* starts with no digit and acc is <<>>.
RECURSIVE DigitsValue(_, _)
DigitsValue(s, acc) ==
  IF s = <<>> \/ Head(s) \notin DOMAIN Digit THEN acc
  ELSE DigitsValue(Tail(s),
                   <<(IF acc = <<>> THEN 0 ELSE acc[1]) * 10 + Digit[Head(s)]>>)

\* parseInt(s): leading blanks are skipped, a sign is read, then digits up
\* to the first character that is none; <<n>>, or <<>> for NaN.
RECURSIVE ParseInt(_)
ParseInt(s) ==
  IF s = <<>> THEN <<>>
  ELSE IF Head(s) = " " THEN ParseInt(Tail(s))
  ELSE IF Head(s) = "-"
  THEN LET v == DigitsValue(Tail(s), <<>>)
       IN IF v = <<>> THEN <<>> ELSE <<0 - v[1]>>
  ELSE IF Head(s) = "+" THEN DigitsValue(Tail(s), <<>>)
  ELSE DigitsValue(s, <<>>)

\* x || d on a number: d when x is NaN or 0.
OrDefault(x, d) == IF x = <<>> \/ x[1] = 0 THEN d ELSE x[1]

DefaultPage == 1
DefaultLimit == 3

\* parseInt(req.query.page) || 1
PageOf(query) == OrDefault(ParseInt(query.page), DefaultPage)
\* parseInt(req.query.limit) || 3
LimitOf(query) == OrDefault(ParseInt(query.limit), DefaultLimit)
\* (page - 1) * limit
SkipOf(page, limit) == (page - 1) * limit

\* Math.ceil(total / limit), limit # 0
Ceil(total, limit) ==
  IF limit > 0 THEN 0 - ((0 - total) \div limit)
  ELSE 0 - (total \div (0 - limit))

\* The filter documents of the three listings.
TasksQuery(user) ==
  [or |-> {[createdBy |-> [eq |-> user]], [assignedTo |-> [eq |-> user]]}]
\* The assigned-to-me filter without its exclusion of the user's own tasks.
AssignedQueryAny(user) == [assignedTo |-> [eq |-> user]]
AssignedQuery(user) ==
  [assignedTo |-> [eq |-> user], createdBy |-> [ne |-> user]]
CreatedQuery(user) == [createdBy |-> [eq |-> user]]

\* Whether a document satisfies a filter: $or of filters, or every path's
\* condition (equality, $ne).
Condition(c, v) == IF "ne" \in DOMAIN c THEN v # c.ne ELSE v = c.eq
RECURSIVE Matches(_, _)
Matches(filter, doc) ==
  IF "or" \in DOMAIN filter
  THEN \E f \in filter.or : Matches(f, doc)
  ELSE \A path \in DOMAIN filter : Condition(filter[path], doc[path])

Matching(store, filter) == {i \in DOMAIN store : Matches(filter, store[i])}

\* Task.countDocuments(query)
CountDocuments(store, filter) == Cardinality(Matching(store, filter))

\* sort({ createdAt: -1 }): the orders of the matching documents with
\* createdAt descending; documents of equal createdAt come in any order.
SortedOrders(store, ids) ==
  {o \in [1..Cardinality(ids) -> ids] :
     /\ \A i, j \in DOMAIN o : i < j =>
          /\ o[i] # o[j]
          /\ store[o[i]].createdAt >= store[o[j]].createdAt}

Min(a, b) == IF a < b THEN a ELSE b
Abs(a) == IF a < 0 THEN 0 - a ELSE a

\* .limit(limit).skip(skip) of a sorted cursor: a negative limit is read as
\* its absolute value; the documents after the first skip, limit at most.
Window(order, limit, skip) ==
  [k \in 1..(Min(Len(order), skip + Abs(limit)) - Min(Len(order), skip)) |->
     order[skip + k]]

\* The response of a listing for one order the sort may give.  A negative
\* skip is refused by the store, and the catch block answers 500.
listTasks(store, filter, query, order) ==
  LET page == PageOf(query)
      limit == LimitOf(query)
      skip == SkipOf(page, limit)
      total == CountDocuments(store, filter)
      found == Window(order, limit, skip)
  IN IF skip < 0 THEN Response(500, NullDoc)
     ELSE [code |-> 200,
           count |-> Len(found),
           total |-> total,
           page |-> page,
           pages |-> Ceil(total, limit),
           data |-> [k \in DOMAIN found |-> Populate(store[found[k]])]]

(***************************************************************************)
(* Requests.                                                               *)
(***************************************************************************)
Body(title, description, dueDate, priority, status, assignedTo, createdBy) ==
  [ title |-> title, description |-> description, dueDate |-> dueDate,
    priority |-> priority, status |-> status, assignedTo |-> assignedTo,
    createdBy |-> createdBy ]

\* The calendar day of an instant on the server's wall clock.
LocalDay(clock, zone) == (clock + zone) \div DayLen

TaskIds(cap) == 1..cap

\* POST /api/tasks
CreateTask(bodies, cap) ==
  /\ nextId <= cap
  /\ \E user \in Users, body \in bodies :
       LET out == createTask(tasks, nextId, body, user, now, tz)
       IN /\ tasks' = out.tasks
          /\ nextId' = IF out.res.code = 201 THEN nextId + 1 ELSE nextId
          /\ req' = [op |-> "createTask", user |-> user, id |-> nextId,
                     body |-> body]
          /\ res' = out.res
  /\ UNCHANGED <<now, tz, inflight>>

\* GET /api/tasks/:id
GetTaskById(cap) ==
  /\ \E user \in Users, id \in TaskIds(cap) :
       /\ req' = [op |-> "getTaskById", user |-> user, id |-> id]
       /\ res' = getTaskById(tasks, id, user)
  /\ UNCHANGED <<tasks, nextId, now, tz, inflight>>

\* PUT /api/tasks/:id
UpdateTask(bodies, cap) ==
  /\ \E user \in Users, id \in TaskIds(cap), body \in bodies :
       LET out == updateTask(tasks, id, body, user, now, tz)
       IN /\ tasks' = out.tasks
          /\ req' = [op |-> "updateTask", user |-> user, id |-> id,
                     body |-> body]
          /\ res' = out.res
  /\ UNCHANGED <<nextId, now, tz, inflight>>

\* DELETE /api/tasks/:id
DeleteTask(cap) ==
  /\ \E user \in Users, id \in TaskIds(cap) :
       LET out == deleteTask(tasks, id, user)
       IN /\ tasks' = out.tasks
          /\ req' = [op |-> "deleteTask", user |-> user, id |-> id]
          /\ res' = out.res
  /\ UNCHANGED <<nextId, now, tz, inflight>>

\* PATCH /api/tasks/:id/status
UpdateTaskStatus(statuses, cap) ==
  /\ \E user \in Users, id \in TaskIds(cap), status \in statuses :
       LET out == updateTaskStatus(tasks, id, status, user)
       IN /\ tasks' = out.tasks
          /\ req' = [op |-> "updateTaskStatus", user |-> user, id |-> id,
                     status |-> status]
          /\ res' = out.res
  /\ UNCHANGED <<nextId, now, tz, inflight>>

\* GET /api/tasks
GetTasks(queries) ==
  /\ \E user \in Users, query \in queries :
       \E order \in SortedOrders(tasks, Matching(tasks, TasksQuery(user))) :
         /\ req' = [op |-> "getTasks", user |-> user, query |-> query]
         /\ res' = listTasks(tasks, TasksQuery(user), query, order)
  /\ UNCHANGED <<tasks, nextId, now, tz, inflight>>

\* GET /api/tasks/assigned
GetAssignedTasks(queries) ==
  /\ \E user \in Users, query \in queries :
       \E order \in SortedOrders(tasks, Matching(tasks, AssignedQuery(user))) :
         /\ req' = [op |-> "getAssignedTasks", user |-> user, query |-> query]
         /\ res' = listTasks(tasks, AssignedQuery(user), query, order)
  /\ UNCHANGED <<tasks, nextId, now, tz, inflight>>

\* GET /api/tasks/created
GetCreatedTasks(queries) ==
  /\ \E user \in Users, query \in queries :
       \E order \in SortedOrders(tasks, Matching(tasks, CreatedQuery(user))) :
         /\ req' = [op |-> "getCreatedTasks", user |-> user, query |-> query]
         /\ res' = listTasks(tasks, CreatedQuery(user), query, order)
  /\ UNCHANGED <<tasks, nextId, now, tz, inflight>>

\* The clock advances.
Tick(steps, horizon) ==
  /\ \E step \in steps : now + step <= horizon /\ now' = now + step
  /\ req' = NoRequest
  /\ res' = NoResponse
  /\ UNCHANGED <<tasks, nextId, tz, inflight>>

(***************************************************************************)
(* The handlers one at a time.                                             *)
(***************************************************************************)
StartNow == 2 * DayLen + 1

TimeZones == {0 - 1, 0, 1}

GoodBody(assignee, clock) ==
  Body("T", "D", DateInstant(clock), "high", Undef, assignee, Undef)

\* Creation payloads: complete ones, one that also carries status and
\* createdBy, and ones that miss a field, name no priority of the schema or
\* are due the day before.
BadCreateBodies ==
  {[GoodBody("u2", now) EXCEPT !.title = Undef, !.status = "completed"],
   [GoodBody("u2", now) EXCEPT !.priority = "urgent"],
   [GoodBody("u2", now) EXCEPT !.dueDate = DateOnly(LocalDay(now, tz) - 1)]}

CreateBodies ==
  {GoodBody("u2", now),
   [GoodBody("u2", now) EXCEPT !.status = "completed", !.createdBy = "u2"]}
    \cup BadCreateBodies

\* The same, the assignee being any well-formed user id.
AnyAssigneeBodies == {GoodBody(a, now) : a \in UserIds} \cup BadCreateBodies

\* Update payloads: a complete one that also carries assignedTo and
\* createdBy, an empty one, one whose status is not of the schema and one
\* due the day before.
UpdateBodies ==
  {Body("T", "D", DateInstant(now), "high", "completed", "u1", "u2"),
   Body(Undef, Undef, DateNone, Undef, Undef, Undef, Undef),
   Body("T", "D", DateInstant(now), "high", "archived", Undef, Undef),
   Body("T", "D", DateOnly(LocalDay(now, tz) - 1), "high", "pending",
        Undef, Undef)}

Statuses == {"pending", "completed", "archived", ""}

Init ==
  /\ tasks = <<>>
  /\ nextId = 1
  /\ now = StartNow
  /\ tz = 0
  /\ req = NoRequest
  /\ res = NoResponse
  /\ inflight = NoRequest

Next ==
  \/ CreateTask(CreateBodies, MaxTasks)
  \/ GetTaskById(MaxTasks)
  \/ UpdateTask(UpdateBodies, MaxTasks)
  \/ DeleteTask(MaxTasks)
  \/ UpdateTaskStatus(Statuses, MaxTasks)

Spec == Init /\ [][Next]_vars

(***************************************************************************)
(* The handlers one at a time, the assignee being any well-formed id.      *)
(***************************************************************************)
NextAnyAssignee ==
  \/ CreateTask(AnyAssigneeBodies, MaxTasks)
  \/ GetTaskById(MaxTasks)
  \/ UpdateTask(UpdateBodies, MaxTasks)
  \/ DeleteTask(MaxTasks)
  \/ UpdateTaskStatus(Statuses, MaxTasks)

SpecAnyAssignee == Init /\ [][NextAnyAssignee]_vars

(***************************************************************************)
(* Due dates: every form of date, every zone, the clock advancing by days. *)
(***************************************************************************)
\* Days the clock advances in one behaviour of the due-date specification.
MaxDays == 1

DueDates ==
  {DateOnly(d) : d \in (LocalDay(now, tz) - 1)..(LocalDay(now, tz) + 1)}
    \cup {DateLocal(t) : t \in {now + tz - DayLen, now + tz}}
    \cup {DateInstant(t) : t \in {now - DayLen, now}}
    \cup {DateInvalid}

DateCreateBodies == {[GoodBody("u2", now) EXCEPT !.dueDate = d] : d \in DueDates}

DateUpdateBodies ==
  {Body("T", "D", d, "high", "pending", Undef, Undef) :
     d \in DueDates \cup {DateNone}}

InitDate ==
  /\ tasks = <<>>
  /\ nextId = 1
  /\ now \in StartNow..(StartNow + DayLen - 1)
  /\ tz \in TimeZones
  /\ req = NoRequest
  /\ res = NoResponse
  /\ inflight = NoRequest

NextDate ==
  \/ CreateTask(DateCreateBodies, 1)
  \/ UpdateTask(DateUpdateBodies, 1)
  \/ Tick({DayLen}, StartNow + (MaxDays + 1) * DayLen - 1)

SpecDate == InitDate /\ [][NextDate]_vars

(***************************************************************************)
(* Listings.                                                               *)
(***************************************************************************)
ListBodies == {GoodBody(a, now) : a \in Users}

\* page and limit as the query string carries them.
Pages == {RawAbsent, <<"2">>}
Limits == {RawAbsent, <<"1", "x">>, <<"-", "2">>, <<"0">>}
Queries == [page : Pages, limit : Limits]

NextList ==
  \/ CreateTask(ListBodies, MaxListed)
  \/ Tick({1}, StartNow + MaxTicks)
  \/ GetTasks(Queries)
  \/ GetAssignedTasks(Queries)
  \/ GetCreatedTasks(Queries)

SpecList == Init /\ [][NextList]_vars

(***************************************************************************)
(* updateTask and updateTaskStatus in two steps, the read that authorizes  *)
(* (up to the await of the write) and the write, other requests between.   *)
(***************************************************************************)
UpdateTaskRead(bodies, cap) ==
  /\ inflight = NoRequest
  /\ \E user \in Users, id \in TaskIds(cap), body \in bodies :
       LET early == updateTaskCheck(tasks, id, body, user, now, tz)
           request == [op |-> "updateTask", user |-> user, id |-> id,
                       body |-> body]
       IN /\ req' = request
          /\ res' = early
          /\ inflight' = IF early = NoResponse THEN request ELSE NoRequest
  /\ UNCHANGED <<tasks, nextId, now, tz>>

UpdateTaskWrite ==
  /\ inflight.op = "updateTask"
  /\ LET out == FindByIdAndUpdate(tasks, inflight.id,
                                  UpdatePatch(inflight.body), tz)
     IN /\ tasks' = out.tasks
        /\ res' = out.res
  /\ req' = inflight
  /\ inflight' = NoRequest
  /\ UNCHANGED <<nextId, now, tz>>

UpdateTaskStatusRead(statuses, cap) ==
  /\ inflight = NoRequest
  /\ \E user \in Users, id \in TaskIds(cap), status \in statuses :
       LET early == updateTaskStatusCheck(tasks, id, status, user)
           request == [op |-> "updateTaskStatus", user |-> user, id |-> id,
                       status |-> status]
       IN /\ req' = request
          /\ res' = early
          /\ inflight' = IF early = NoResponse
                         THEN request @@ [doc |-> SetStatus(tasks[id], status)]
                         ELSE NoRequest
  /\ UNCHANGED <<tasks, nextId, now, tz>>

UpdateTaskStatusWrite ==
  /\ inflight.op = "updateTaskStatus"
  /\ LET out == Save(tasks, inflight.doc)
     IN /\ tasks' = out.tasks
        /\ res' = out.res
  /\ req' = [op |-> inflight.op, user |-> inflight.user, id |-> inflight.id,
             status |-> inflight.status]
  /\ inflight' = NoRequest
  /\ UNCHANGED <<nextId, now, tz>>

NextRace ==
  \/ CreateTask(CreateBodies, MaxTasks)
  \/ DeleteTask(MaxTasks)
  \/ GetTaskById(MaxTasks)
  \/ UpdateTaskRead(UpdateBodies, MaxTasks)
  \/ UpdateTaskWrite
  \/ UpdateTaskStatusRead(Statuses, MaxTasks)
  \/ UpdateTaskStatusWrite

SpecRace == Init /\ [][NextRace]_vars

(***************************************************************************)
(* Properties.                                                             *)
(***************************************************************************)
\* C1: getTaskById answers NotFound when no task has the id, the task when
\* the requester is its createdBy or its assignedTo, and Forbidden when the
\* task exists and the requester is neither.
C1_GetTaskByIdDecision ==
  req.op = "getTaskById" =>
    IF req.id \notin DOMAIN tasks THEN res.code = 404
    ELSE IF req.user \in {tasks[req.id].createdBy, tasks[req.id].assignedTo}
    THEN res.code = 200 /\ res.data # NullDoc /\ res.data._id = req.id
    ELSE res.code = 403

\* A task that was created and is no longer in the store.
Deleted(id) == id < nextId /\ id \notin DOMAIN tasks

\* C2: deleteTask of an existing task succeeds only for its createdBy: any
\* other requester, the assignee included, gets Forbidden and the store is
\* as before; the creator gets success and the task is gone, a deleted task
\* stays gone, and getTaskById of it answers NotFound.
C2_DeleteOnlyByCreator ==
  [][ /\ (req'.op = "deleteTask" /\ req'.id \in DOMAIN tasks) =>
           IF tasks[req'.id].createdBy = req'.user
           THEN res'.code = 200 /\ req'.id \notin DOMAIN tasks'
           ELSE res'.code = 403 /\ tasks' = tasks
      /\ \A id \in 1..(nextId - 1) : Deleted(id) => id \notin DOMAIN tasks'
      /\ (req'.op = "getTaskById" /\ Deleted(req'.id)) => res'.code = 404
    ]_vars

\* C2's case: a task was deleted and a later getTaskById of it answered
\* NotFound.
C2_Witness ==
  /\ req.op = "getTaskById"
  /\ Deleted(req.id)
  /\ res.code = 404

\* C3: a task's createdBy is the requester of the createTask that made it,
\* and createdBy and assignedTo keep their values while the task exists.
C3_CreatorAndAssigneeFixed ==
  [][ \A id \in DOMAIN tasks' :
        IF id \in DOMAIN tasks
        THEN /\ tasks'[id].createdBy = tasks[id].createdBy
             /\ tasks'[id].assignedTo = tasks[id].assignedTo
        ELSE /\ req'.op = "createTask"
             /\ tasks'[id].createdBy = req'.user
    ]_vars

\* C3's case: an updateTask whose payload carries another createdBy and
\* another assignedTo than the task's succeeded.
C3_Witness ==
  /\ req.op = "updateTask"
  /\ res.code = 200
  /\ req.id \in DOMAIN tasks
  /\ req.body.createdBy \notin {Undef, tasks[req.id].createdBy}
  /\ req.body.assignedTo \notin {Undef, tasks[req.id].assignedTo}

\* C4: every task of the store has status pending or completed.
C4_StatusOfEnum ==
  \A id \in DOMAIN tasks : tasks[id].status \in {"pending", "completed"}

\* C5: a successful updateTaskStatus changes the status of the addressed
\* task and nothing else: its other fields and every other task are as
\* before, and no task is added or removed.
C5_StatusUpdateFrame ==
  [][ (req'.op = "updateTaskStatus" /\ res'.code = 200) =>
        /\ req'.id \in DOMAIN tasks
        /\ req'.user \in {tasks[req'.id].createdBy, tasks[req'.id].assignedTo}
        /\ req'.status \in {"pending", "completed"}
        /\ DOMAIN tasks' = DOMAIN tasks
        /\ \A id \in DOMAIN tasks :
             \A f \in DOMAIN tasks[id] :
               IF id = req'.id /\ f = "status"
               THEN tasks'[id][f] = req'.status
               ELSE tasks'[id][f] = tasks[id][f]
    ]_vars

\* C5's case: the assignee of a task, not its creator, set its status to
\* completed while another task was in the store.
C5_Witness ==
  /\ req.op = "updateTaskStatus"
  /\ res.code = 200
  /\ req.status = "completed"
  /\ Cardinality(DOMAIN tasks) >= 2
  /\ tasks[req.id].createdBy # req.user
  /\ tasks[req.id].title = "T"

\* C6: a createTask, updateTask, updateTaskStatus or deleteTask that answers
\* InvalidInput, NotFound or Forbidden leaves the store as it was.
C6_RejectedLeavesStore ==
  [][ ( /\ req'.op \in {"createTask", "updateTask", "updateTaskStatus",
                         "deleteTask"}
        /\ res'.code \in {400, 403, 404} )
      => (tasks' = tasks /\ nextId' = nextId)
    ]_vars

\* C6's case: an updateTask by a participant of an existing task was
\* rejected for its due date.
C6_Witness ==
  /\ req.op = "updateTask"
  /\ res.code = 400
  /\ req.id \in DOMAIN tasks
  /\ req.user = tasks[req.id].createdBy
  /\ tasks[req.id].status = "completed"

\* The tasks each listing is to hold for a user.
Expected(op, user) ==
  {i \in DOMAIN tasks :
     CASE op = "getAssignedTasks" ->
            tasks[i].assignedTo = user /\ tasks[i].createdBy # user
       [] op = "getCreatedTasks" -> tasks[i].createdBy = user
       [] OTHER -> tasks[i].createdBy = user \/ tasks[i].assignedTo = user}

ListOps == {"getTasks", "getAssignedTasks", "getCreatedTasks"}

\* The ids of the tasks a list response holds.
Listed(r) == {r.data[k]._id : k \in DOMAIN r.data}

\* C7: a listing holds tasks of its filter only, counts all of them in
\* total, and holds them all when the page takes them all: assigned-to-me
\* is assignedTo = user and createdBy # user, created-by-me is
\* createdBy = user, all-tasks is the union of createdBy = user and
\* assignedTo = user.
C7_ListingFilters ==
  (req.op \in ListOps /\ res.code = 200) =>
    /\ Listed(res) \subseteq Expected(req.op, req.user)
    /\ res.total = Cardinality(Expected(req.op, req.user))
    /\ res.count = res.total => Listed(res) = Expected(req.op, req.user)

\* C7's case: the user has a task created and assigned to themself and one
\* assigned by another user, and assigned-to-me held the latter alone.
C7_Witness ==
  /\ req.op = "getAssignedTasks"
  /\ res.code = 200
  /\ res.count = 1
  /\ res.total = 1
  /\ \E i \in DOMAIN tasks :
       tasks[i].createdBy = req.user /\ tasks[i].assignedTo = req.user

\* C8: with N matching tasks and page size L (the caller's limit, or 3),
\* a list response has total = N and pages = ceil(N / L), and page p holds
\* the records at positions (p-1)*L+1 .. min(p*L, N) of the order by
\* createdAt descending, count being their number.
C8_Pagination ==
  (req.op \in ListOps /\ res.code = 200) =>
    LET N == Cardinality(Expected(req.op, req.user))
        L == LimitOf(req.query)
        p == res.page
        first == (p - 1) * L + 1
        last == Min(p * L, N)
    IN /\ res.total = N
       /\ res.pages = Ceil(N, L)
       /\ res.count = Len(res.data)
       /\ res.count = (IF last >= first THEN last - first + 1 ELSE 0)
       /\ \A j, k \in DOMAIN res.data :
            j < k => res.data[j].createdAt >= res.data[k].createdAt

\* C9: a createTask whose payload is complete and whose dueDate is the date
\* of today is accepted, and one whose dueDate is the day before is
\* rejected as invalid input.
C9_DueDateByCalendarDay ==
  (req.op = "createTask" /\ req.body.dueDate.form = "date") =>
    /\ req.body.dueDate.day = LocalDay(now, tz) => res.code = 201
    /\ req.body.dueDate.day = LocalDay(now, tz) - 1 => res.code = 400

\* C10: an updateTask or updateTaskStatus that answers success carries the
\* updated task, whatever other request came between its read and its
\* write.
C10_SuccessCarriesTask ==
  (req.op \in {"updateTask", "updateTaskStatus"} /\ res.code = 200) =>
    (res.data # NullDoc /\ res.data._id = req.id)

====
